---- MODULE Spec2Model ----
(***************************************************************************)
(* A model of VirusGenealogy<Virus> (virus_genealogy.h).                   *)
(*                                                                         *)
(* A Node is a heap object: shared pointers are modelled by the address of *)
(* the object they point to, `nodes` is the heap (address -> Node), and    *)
(* `viruses` is the std::map from identifier to shared pointer.  A Node    *)
(* lives as long as some shared pointer refers to it, so a Node erased    *)
(* from `viruses` stays on the heap while another Node's set holds it.     *)
(* std::set<smart_ptr> orders its elements by address.                     *)
(***************************************************************************)
EXTENDS Integers, Sequences, FiniteSets, TLC

\* Bounds of the model.
MaxId == 2
MaxAddr == 3
MaxParents == 2
MaxOps == 4

Ids == 0..MaxId
Addrs == 1..MaxAddr

\* The identifiers a store is constructed with: identifiers are only compared
\* with each other, so one of them stands for any.
StemIds == {0}

VARIABLES viruses, nodes, stemNode, crashed, last, ops, before

vars == <<viruses, nodes, stemNode, crashed, last, ops, before>>

Range(f) == {f[x] : x \in DOMAIN f}

\* Node(virus_id_t id): a virus with the given id and empty adjacency sets.
Node(id) == [id |-> id, parents |-> {}, children |-> {}]

\* result of viruses.find(k) when k is not a key
MapEnd == -1

\* bool exists(id)
exists(vir, id) == id \in DOMAIN vir

\* Iteration order of a std::set<std::shared_ptr<Node>>: ascending address.
RECURSIVE SetOrder(_)
SetOrder(S) ==
    IF S = {} THEN <<>>
    ELSE LET m == CHOOSE x \in S : \A y \in S : x <= y
         IN <<m>> \o SetOrder(S \ {m})

\* Shared ownership: a Node is destroyed when the last shared pointer to it
\* (a map entry, stemNode, a member of some Node's parents or children) goes,
\* and its destruction drops the pointers its own sets hold.
RECURSIVE Release(_, _, _)
Release(vir, nd, stem) ==
    LET held == {stem} \cup Range(vir)
                \cup UNION {nd[a].parents \cup nd[a].children : a \in DOMAIN nd}
        live == DOMAIN nd \cap held
    IN IF live = DOMAIN nd THEN nd
       ELSE Release(vir, [a \in live |-> nd[a]], stem)

(***************************************************************************)
(* connect(child_id, parent_ids), the private overload.                    *)
(***************************************************************************)

\* `oom` is the iteration of connect's loop in which an allocation fails (0:
\* none does).  It can fail in parent->children.insert (nothing was inserted),
\* in in_process.push_back (the inner catch erases the insertion) or in
\* child->parents.insert (the insertion is recorded, and the outer catch
\* erases it): all three leave the sets as ConnectRollback leaves them.
OomChoices(n) == 0..n

\* The catch blocks of connect: every recorded insertion into a parent's
\* children set is erased.  Nothing is erased from the child's parents set.
ConnectRollback(nd, in_process, child) ==
    [a \in DOMAIN nd |->
        IF a \in Range(in_process)
        THEN [nd[a] EXCEPT !.children = @ \ {child}]
        ELSE nd[a]]

\* A loop that is not the code's: it returns at the first parent that has the
\* child already, where the code goes on to the next parent.
RECURSIVE ConnectLoopStopAtExisting(_, _, _, _, _, _, _)
ConnectLoopStopAtExisting(vir, nd, child, parent_ids, i, in_process, oom) ==
    IF i > Len(parent_ids) THEN [nodes |-> nd, result |-> "ok"]
    ELSE IF ~exists(vir, parent_ids[i])
    THEN [nodes |-> ConnectRollback(nd, in_process, child),
          result |-> "VirusNotFound"]
    ELSE
      LET parent == vir[parent_ids[i]] IN
      IF child \in nd[parent].children
      THEN [nodes |-> nd, result |-> "ok"]
      ELSE IF oom = i
      THEN [nodes |-> ConnectRollback(nd, in_process, child),
            result |-> "bad_alloc"]
      ELSE ConnectLoopStopAtExisting(vir,
                       [nd EXCEPT ![parent].children = @ \cup {child},
                                  ![child].parents = @ \cup {parent}],
                       child, parent_ids, i + 1,
                       Append(in_process, parent), oom)

\* The loop of connect over parent_ids, from its i-th element on.
RECURSIVE ConnectLoop(_, _, _, _, _, _, _)
ConnectLoop(vir, nd, child, parent_ids, i, in_process, oom) ==
    IF i > Len(parent_ids) THEN [nodes |-> nd, result |-> "ok"]
    ELSE IF ~exists(vir, parent_ids[i])
    THEN [nodes |-> ConnectRollback(nd, in_process, child),
          result |-> "VirusNotFound"]
    ELSE
      LET parent == vir[parent_ids[i]] IN
      IF child \in nd[parent].children
      THEN ConnectLoop(vir, nd, child, parent_ids, i + 1, in_process, oom)
      ELSE IF oom = i
      THEN [nodes |-> ConnectRollback(nd, in_process, child),
            result |-> "bad_alloc"]
      ELSE ConnectLoop(vir,
                       [nd EXCEPT ![parent].children = @ \cup {child},
                                  ![child].parents = @ \cup {parent}],
                       child, parent_ids, i + 1,
                       Append(in_process, parent), oom)

connect(vir, nd, child_id, parent_ids, oom) ==
    IF ~exists(vir, child_id)
    THEN [nodes |-> nd, result |-> "VirusNotFound"]
    ELSE ConnectLoop(vir, nd, vir[child_id], parent_ids, 1, <<>>, oom)

(***************************************************************************)
(* create(id, parent_ids)                                                  *)
(***************************************************************************)

\* What std::make_shared yields when it cannot allocate: no address.
NullAddr == 0

\* A create that is not the code's: it looks the parents up before it tests
\* whether id is taken.
createLookupFirst(vir, nd, stem, id, parent_ids, addr, oom) ==
    IF parent_ids = <<>>
    THEN [viruses |-> vir, nodes |-> nd, result |-> "ok"]
    ELSE IF \E i \in 1..Len(parent_ids) : ~exists(vir, parent_ids[i])
    THEN [viruses |-> vir, nodes |-> nd, result |-> "VirusNotFound"]
    ELSE IF exists(vir, id)
    THEN [viruses |-> vir, nodes |-> nd, result |-> "VirusAlreadyCreated"]
    ELSE IF addr = NullAddr
    THEN [viruses |-> vir, nodes |-> nd, result |-> "bad_alloc"]
    ELSE
      LET vir1 == [k \in DOMAIN vir \cup {id} |->
                      IF k = id THEN addr ELSE vir[k]]
          nd1 == [a \in DOMAIN nd \cup {addr} |->
                      IF a = addr THEN Node(id) ELSE nd[a]]
          c == connect(vir1, nd1, id, parent_ids, oom)
      IN IF c.result = "ok"
         THEN [viruses |-> vir1, nodes |-> c.nodes, result |-> "ok"]
         ELSE [viruses |-> vir,
               nodes |-> Release(vir, c.nodes, stem),
               result |-> c.result]

\* A create that is not the code's: it does not return early on an empty
\* parent list.
createNoEmptyCheck(vir, nd, stem, id, parent_ids, addr, oom) ==
    IF exists(vir, id)
    THEN [viruses |-> vir, nodes |-> nd, result |-> "VirusAlreadyCreated"]
    ELSE IF addr = NullAddr
    THEN [viruses |-> vir, nodes |-> nd, result |-> "bad_alloc"]
    ELSE
      LET vir1 == [k \in DOMAIN vir \cup {id} |->
                      IF k = id THEN addr ELSE vir[k]]
          nd1 == [a \in DOMAIN nd \cup {addr} |->
                      IF a = addr THEN Node(id) ELSE nd[a]]
          c == connect(vir1, nd1, id, parent_ids, oom)
      IN IF c.result = "ok"
         THEN [viruses |-> vir1, nodes |-> c.nodes, result |-> "ok"]
         ELSE [viruses |-> vir,
               nodes |-> Release(vir, c.nodes, stem),
               result |-> c.result]

\* `addr` is the address std::make_shared gives the new Node (NullAddr: it
\* throws std::bad_alloc instead).
create(vir, nd, stem, id, parent_ids, addr, oom) ==
    IF parent_ids = <<>>
    THEN [viruses |-> vir, nodes |-> nd, result |-> "ok"]
    ELSE IF exists(vir, id)
    THEN [viruses |-> vir, nodes |-> nd, result |-> "VirusAlreadyCreated"]
    ELSE IF addr = NullAddr
    THEN [viruses |-> vir, nodes |-> nd, result |-> "bad_alloc"]
    ELSE
      LET vir1 == [k \in DOMAIN vir \cup {id} |->
                      IF k = id THEN addr ELSE vir[k]]
          nd1 == [a \in DOMAIN nd \cup {addr} |->
                      IF a = addr THEN Node(id) ELSE nd[a]]
          c == connect(vir1, nd1, id, parent_ids, oom)
      IN IF c.result = "ok"
         THEN [viruses |-> vir1, nodes |-> c.nodes, result |-> "ok"]
         ELSE [viruses |-> vir,
               nodes |-> Release(vir, c.nodes, stem),
               result |-> c.result]

(***************************************************************************)
(* remove(id)                                                              *)
(***************************************************************************)

\* VisitChildren with the comparison off by one: a child is enqueued only
\* once it counts one removed parent more than it has parents.
RECURSIVE VisitChildrenOffByOne(_, _, _, _)
VisitChildrenOffByOne(nd, kids, removed_parents, to_process) ==
    IF kids = <<>>
    THEN [removed_parents |-> removed_parents, to_process |-> to_process]
    ELSE
      LET child == Head(kids)
          val == removed_parents[nd[child].id] + 1
      IN VisitChildrenOffByOne(nd, Tail(kids),
                       [removed_parents EXCEPT ![nd[child].id] = val],
                       IF val = Cardinality(nd[child].parents) + 1
                       THEN Append(to_process, child)
                       ELSE to_process)

\* for (auto child: current->children): count the removed parent of each
\* child and enqueue the child whose count equals its number of parents.
\* removed_parents is keyed by identifier.
RECURSIVE VisitChildren(_, _, _, _)
VisitChildren(nd, kids, removed_parents, to_process) ==
    IF kids = <<>>
    THEN [removed_parents |-> removed_parents, to_process |-> to_process]
    ELSE
      LET child == Head(kids)
          val == removed_parents[nd[child].id] + 1
      IN VisitChildren(nd, Tail(kids),
                       [removed_parents EXCEPT ![nd[child].id] = val],
                       IF val = Cardinality(nd[child].parents)
                       THEN Append(to_process, child)
                       ELSE to_process)

\* while (!to_process.empty()): the breadth-first reachability pass.  Here
\* `current` is the Node that was at the front of the queue.
RECURSIVE Traverse(_, _, _, _, _, _)
Traverse(vir, nd, to_process, fully_remove, remove_iterators, removed_parents) ==
    IF to_process = <<>>
    THEN [fully_remove |-> fully_remove,
          remove_iterators |-> remove_iterators,
          removed_parents |-> removed_parents]
    ELSE
      LET current == Head(to_process)
          it == IF exists(vir, nd[current].id) THEN nd[current].id ELSE MapEnd
          v == VisitChildren(nd, SetOrder(nd[current].children),
                             removed_parents, Tail(to_process))
      IN Traverse(vir, nd, v.to_process, fully_remove \cup {current},
                  Append(remove_iterators, it), v.removed_parents)

\* Staging that is not the code's: it stages nothing for the parents of
\* begin_node.
RemoveGuardsChildrenOnly(nd, begin_node, fully_remove) ==
    UNION {{[set |-> "parents", owner |-> child, node |-> current] :
                child \in nd[current].children \ fully_remove} :
           current \in fully_remove}

\* The RemoveGuards remove() builds: one per edge from a removed Node to a
\* surviving child (erasing from the child's parents) and one per parent of
\* begin_node (erasing from the parent's children).
RemoveGuards(nd, begin_node, fully_remove) ==
    UNION {{[set |-> "parents", owner |-> child, node |-> current] :
                child \in nd[current].children \ fully_remove} :
           current \in fully_remove} \cup
    {[set |-> "children", owner |-> parent, node |-> begin_node] :
        parent \in nd[begin_node].parents}

\* RemoveGuard's constructor: guarded_set->find(node), end() when absent.
GuardFound(nd, g) ==
    IF g.set = "parents" THEN g.node \in nd[g.owner].parents
    ELSE g.node \in nd[g.owner].children

\* ~RemoveGuard after drop_rollback, for every guard.
CommitGuards(nd, guards) ==
    [a \in DOMAIN nd |->
        [nd[a] EXCEPT
            !.parents = @ \ {g.node : g \in {h \in guards :
                                h.set = "parents" /\ h.owner = a}},
            !.children = @ \ {g.node : g \in {h \in guards :
                                h.set = "children" /\ h.owner = a}}]]

\* it->parents.clear(); it->children.clear() for every Node of fully_remove.
ClearRemoved(nd, fully_remove) ==
    [a \in DOMAIN nd |->
        IF a \in fully_remove
        THEN [nd[a] EXCEPT !.parents = {}, !.children = {}]
        ELSE nd[a]]

\* for (auto &iter: remove_iterators) viruses.erase(iter)
EraseAll(vir, remove_iterators) ==
    [k \in DOMAIN vir \ Range(remove_iterators) |-> vir[k]]

HasDuplicates(s) == \E i, j \in 1..Len(s) : i < j /\ s[i] = s[j]

\* The erasures of the commit that act on an iterator that is end() or was
\* already erased: their behaviour is undefined.
InvalidErase(nd, guards, remove_iterators) ==
    \/ \E g \in guards : ~GuardFound(nd, g)
    \/ MapEnd \in Range(remove_iterators)
    \/ HasDuplicates(remove_iterators)

\* A remove that is not the code's: it does not refuse the stem.
removeNoStemCheck(vir, nd, stem, id, dangling, erased, oom) ==
    LET same(res) == [viruses |-> vir, nodes |-> nd, result |-> res,
                      fully_remove |-> {}, remove_iterators |-> <<>>]
    IN
    IF ~exists(vir, id) THEN same("VirusNotFound")
    ELSE IF dangling = "fault" THEN same("fault")
    ELSE
      LET begin_node == vir[id]
          t == Traverse(vir, nd, <<begin_node>>, {}, <<>>, [k \in Ids |-> 0])
          guards == RemoveGuards(nd, begin_node, t.fully_remove)
      IN IF oom THEN same("bad_alloc")
         ELSE IF InvalidErase(nd, guards, t.remove_iterators) /\ erased = "fault"
         THEN same("fault")
         ELSE
           LET vir1 == EraseAll(vir, t.remove_iterators)
               nd1 == ClearRemoved(CommitGuards(nd, guards), t.fully_remove)
           IN [viruses |-> vir1,
               nodes |-> Release(vir1, nd1, stem),
               result |-> "ok",
               fully_remove |-> t.fully_remove,
               remove_iterators |-> t.remove_iterators]

\* remove(id).  Two steps of it have undefined behaviour, and the model takes
\* every outcome listed for them:
\*  - `auto &current = to_process.front(); to_process.pop();` leaves `current`
\*    referring to a queue element whose lifetime has ended.  `dangling` is
\*    what reading it yields: "stale" (the bytes of the popped pointer are
\*    still there, so `current` is the popped Node) or "fault".
\*  - an erase through an iterator that is end() or was erased before
\*    (InvalidErase).  `erased` is what it does: "noop" (nothing more is
\*    erased and the loop goes on) or "fault".
\* A fault ends the process (result "fault"): no call follows it, and the
\* record keeps the store as the call found it.
\* `oom` says whether an allocation of the traversal or of the staging fails;
\* nothing has been changed by then and the guards, still set to roll back,
\* erase nothing.
remove(vir, nd, stem, id, dangling, erased, oom) ==
    LET same(res) == [viruses |-> vir, nodes |-> nd, result |-> res,
                      fully_remove |-> {}, remove_iterators |-> <<>>]
    IN
    IF id = nd[stem].id THEN same("TriedToRemoveStemVirus")
    ELSE IF ~exists(vir, id) THEN same("VirusNotFound")
    ELSE IF dangling = "fault" THEN same("fault")
    ELSE
      LET begin_node == vir[id]
          t == Traverse(vir, nd, <<begin_node>>, {}, <<>>, [k \in Ids |-> 0])
          guards == RemoveGuards(nd, begin_node, t.fully_remove)
      IN IF oom THEN same("bad_alloc")
         ELSE IF InvalidErase(nd, guards, t.remove_iterators) /\ erased = "fault"
         THEN same("fault")
         ELSE
           LET vir1 == EraseAll(vir, t.remove_iterators)
               nd1 == ClearRemoved(CommitGuards(nd, guards), t.fully_remove)
           IN [viruses |-> vir1,
               nodes |-> Release(vir1, nd1, stem),
               result |-> "ok",
               fully_remove |-> t.fully_remove,
               remove_iterators |-> t.remove_iterators]

(***************************************************************************)
(* The store as a state machine.                                           *)
(***************************************************************************)

ParentLists == UNION {[1..n -> Ids] : n \in 0..MaxParents}

\* The call that led to the current state: the operation, its arguments and
\* how it ended ("ok", the exception it threw, or "fault").  `before` is the
\* store as that call found it.
Call(op, id, parent_ids, result) ==
    [op |-> op, id |-> id, parents |-> parent_ids, result |-> result]

\* explicit VirusGenealogy(stem_id)
Init ==
    \E stem_id \in StemIds, addr \in Addrs :
        /\ viruses = [k \in {stem_id} |-> addr]
        /\ nodes = [a \in {addr} |-> Node(stem_id)]
        /\ stemNode = addr
        /\ crashed = FALSE
        /\ last = Call("construct", stem_id, <<>>, "ok")
        /\ ops = 0
        /\ before = [viruses |-> viruses, nodes |-> nodes]

Return(r, call) ==
    /\ viruses' = r.viruses
    /\ nodes' = r.nodes
    /\ crashed' = (r.result = "fault")
    /\ last' = call
    /\ ops' = ops + 1
    /\ before' = [viruses |-> viruses, nodes |-> nodes]
    /\ UNCHANGED stemNode

\* The addresses std::make_shared can give a new Node; with the heap full it
\* cannot allocate.
Allocations(nd) ==
    IF Addrs \subseteq DOMAIN nd THEN {NullAddr} ELSE Addrs \ DOMAIN nd

\* void create(id, parent_ids); the one-parent overload passes {parent_id}.
Create ==
    /\ ~crashed /\ ops < MaxOps
    /\ \E id \in Ids, parent_ids \in ParentLists, addr \in Allocations(nodes) :
         \E oom \in OomChoices(Len(parent_ids)) :
           LET r == create(viruses, nodes, stemNode, id, parent_ids, addr, oom)
           IN Return(r, Call("create", id, parent_ids, r.result))

\* void connect(child_id, parent_id), the public overload.
Connect ==
    /\ ~crashed /\ ops < MaxOps
    /\ \E child_id \in Ids, parent_id \in Ids, oom \in OomChoices(1) :
         LET c == connect(viruses, nodes, child_id, <<parent_id>>, oom)
         IN Return([viruses |-> viruses, nodes |-> c.nodes, result |-> c.result],
                   Call("connect", child_id, <<parent_id>>, c.result))

\* void remove(id)
Remove ==
    /\ ~crashed /\ ops < MaxOps
    /\ \E id \in Ids, dangling \in {"stale", "fault"},
          erased \in {"noop", "fault"}, oom \in BOOLEAN :
         LET r == remove(viruses, nodes, stemNode, id, dangling, erased, oom)
         IN Return(r, Call("remove", id, <<>>, r.result))

Next == Create \/ Connect \/ Remove

Spec == Init /\ [][Next]_vars

\* void connect(child_id, parent_ids), the private overload, applied once, as
\* the operation its comment describes, to a store that the public operations
\* have reached: nothing is called after it.
ConnectMany ==
    /\ ~crashed /\ ops < MaxOps
    /\ \E child_id \in Ids, parent_ids \in ParentLists :
         \E oom \in OomChoices(Len(parent_ids)) :
           LET c == connect(viruses, nodes, child_id, parent_ids, oom)
           IN /\ viruses' = viruses
              /\ nodes' = c.nodes
              /\ last' = Call("connect", child_id, parent_ids, c.result)
              /\ before' = [viruses |-> viruses, nodes |-> nodes]
              /\ ops' = MaxOps
              /\ UNCHANGED <<stemNode, crashed>>

NextConnect == Create \/ Connect \/ Remove \/ ConnectMany

SpecConnect == Init /\ [][NextConnect]_vars

\* create(id, {a, b}) followed at once by remove(id), as one step of a caller:
\* remove is called only if create returned, and the result is that of the
\* call that ended the sequence.
CreateRemove ==
    /\ ~crashed /\ ops + 2 <= MaxOps
    /\ \E id \in Ids, a \in Ids, b \in Ids, addr \in Allocations(nodes) :
         \E oom \in OomChoices(2) :
           LET c == create(viruses, nodes, stemNode, id, <<a, b>>, addr, oom)
               Sequel(r) ==
                   /\ viruses' = r.viruses
                   /\ nodes' = r.nodes
                   /\ crashed' = (r.result = "fault")
                   /\ last' = Call("create;remove", id, <<a, b>>, r.result)
                   /\ ops' = ops + 2
                   /\ before' = [viruses |-> viruses, nodes |-> nodes]
                   /\ UNCHANGED stemNode
           IN IF c.result # "ok" THEN Sequel(c)
              ELSE \E dangling \in {"stale", "fault"},
                      erased \in {"noop", "fault"}, roem \in BOOLEAN :
                     Sequel(remove(c.viruses, c.nodes, stemNode, id,
                                   dangling, erased, roem))

NextRoundTrip == Create \/ Connect \/ Remove \/ CreateRemove

SpecRoundTrip == Init /\ [][NextRoundTrip]_vars

(***************************************************************************)
(* What a caller observes.                                                 *)
(***************************************************************************)

\* get_stem_id()
get_stem_id == nodes[stemNode].id

\* get_parents(id), for an id of the store
get_parents(vir, nd, id) == {nd[p].id : p \in nd[vir[id]].parents}

\* the identifiers get_children_begin(id) .. get_children_end(id) runs over
get_children(vir, nd, id) == {nd[c].id : c \in nd[vir[id]].children}

\* The identifiers met from get_children_begin(id) to get_children_end(id),
\* in the order operator++ meets them: that of the children set.
children_view(vir, nd, id) ==
    LET order == SetOrder(nd[vir[id]].children)
    IN [i \in 1..Len(order) |-> nd[order[i]].id]

\* The Nodes of the store.
Stored(vir) == Range(vir)

\* The last call left the store as it found it: the same identifiers, each
\* with the same Node, parents and children.
StoreUnchanged ==
    /\ viruses = before.viruses
    /\ \A id \in DOMAIN viruses : nodes[viruses[id]] = before.nodes[viruses[id]]

\* The last call was `op` and it returned normally.
Succeeded(op) == last.op = op /\ last.result = "ok"

(***************************************************************************)
(* C1: the stem is in the store in every reachable state.                  *)
(***************************************************************************)
C1_StemAlwaysExists == exists(viruses, get_stem_id)

(***************************************************************************)
(* C2: every entity of the store other than the stem has at least one      *)
(* parent, in every reachable state.                                       *)
(***************************************************************************)
C2_NonStemHasParent ==
    \A id \in DOMAIN viruses :
        id # get_stem_id => nodes[viruses[id]].parents # {}

\* A remove took a parent away from an entity that stays in the store.
C2_Witness ==
    /\ Succeeded("remove")
    /\ \E id \in DOMAIN viruses :
          /\ id # get_stem_id
          /\ exists(before.viruses, id)
          /\ before.viruses[id] = viruses[id]
          /\ nodes[viruses[id]].parents # before.nodes[viruses[id]].parents

(***************************************************************************)
(* C3: parents_of(stem_id()) is empty in every reachable state.            *)
(***************************************************************************)
C3_StemHasNoParents ==
    exists(viruses, get_stem_id) =>
        get_parents(viruses, nodes, get_stem_id) = {}

(***************************************************************************)
(* C4: adjacency is symmetric after every call: for every entity B of the  *)
(* store, A is among B's children iff B is among A's parents, and A is     *)
(* among B's parents iff B is among A's children.                          *)
(***************************************************************************)
C4_Symmetric ==
    \A b \in Stored(viruses) :
        /\ \A a \in nodes[b].children : b \in nodes[a].parents
        /\ \A a \in nodes[b].parents : b \in nodes[a].children

\* The last call was given an identifier that the store did not hold.
MissingParent == \E i \in 1..Len(last.parents) : ~exists(before.viruses, last.parents[i])

(***************************************************************************)
(* C5: a create with a fresh id and a non-empty parent list naming an      *)
(* identifier that is absent when the call is made throws VirusNotFound    *)
(* and leaves the store as it was (unless an allocation failed first).     *)
(***************************************************************************)
C5_CreateMissingParent ==
    (/\ last.op = "create"
     /\ last.parents # <<>>
     /\ ~exists(before.viruses, last.id)
     /\ MissingParent
     /\ last.result # "bad_alloc")
    => (last.result = "VirusNotFound" /\ StoreUnchanged)

(***************************************************************************)
(* C6: a connect whose child or one of whose parents is absent throws      *)
(* VirusNotFound and leaves the store as it was, also when earlier parents *)
(* of the list had been linked (unless an allocation failed first).        *)
(***************************************************************************)
C6_ConnectMissing ==
    (/\ last.op = "connect"
     /\ (~exists(before.viruses, last.id) \/ MissingParent)
     /\ last.result # "bad_alloc")
    => (last.result = "VirusNotFound" /\ StoreUnchanged)

\* The least set of Nodes that holds R and every Node of the store that has
\* parents, all of them in the set.
RECURSIVE Cascade(_, _, _)
Cascade(nd, stored, R) ==
    LET more == {a \in stored \ R :
                    nd[a].parents # {} /\ nd[a].parents \subseteq R}
    IN IF more = {} THEN R ELSE Cascade(nd, stored, R \cup more)

(***************************************************************************)
(* C7: a successful remove(r) erases exactly r and the entities left with  *)
(* no surviving parent (the least set holding r and closed under "all the  *)
(* parents are in the set"); every other entity stays in the store.        *)
(***************************************************************************)
C7_RemovesExactlyCascade ==
    Succeeded("remove") =>
        LET gone == Cascade(before.nodes, Stored(before.viruses),
                            {before.viruses[last.id]})
        IN viruses = [id \in {k \in DOMAIN before.viruses :
                                 before.viruses[k] \notin gone}
                         |-> before.viruses[id]]

(***************************************************************************)
(* C8: after a successful remove every member of the parents and of the    *)
(* children of an entity of the store is itself an entity of the store.    *)
(***************************************************************************)
C8_NoReferenceToErased ==
    Succeeded("remove") =>
        \A a \in Stored(viruses) :
            nodes[a].parents \cup nodes[a].children \subseteq Stored(viruses)

\* The Nodes reached from the Nodes of S by following children.
RECURSIVE Reach(_, _)
Reach(nd, S) ==
    LET n == S \cup UNION {nd[a].children : a \in S}
    IN IF n = S THEN S ELSE Reach(nd, n)

\* No entity of the store is its own descendant.
Acyclic(vir, nd) == \A a \in Stored(vir) : a \notin Reach(nd, nd[a].children)

(***************************************************************************)
(* C9: a successful create keeps an acyclic graph acyclic.                 *)
(***************************************************************************)
C9_CreateKeepsAcyclic ==
    (Succeeded("create") /\ Acyclic(before.viruses, before.nodes))
    => Acyclic(viruses, nodes)

(***************************************************************************)
(* C10: after a successful create(id, parents) with parents not empty, the *)
(* parents of id are exactly the listed identifiers, id is a child of each *)
(* of them, id has no children and nothing else in the store changed.      *)
(***************************************************************************)
C10_CreateEffect ==
    (Succeeded("create") /\ last.parents # <<>>) =>
        /\ DOMAIN viruses = DOMAIN before.viruses \cup {last.id}
        /\ get_parents(viruses, nodes, last.id) = Range(last.parents)
        /\ \A p \in Range(last.parents) :
              last.id \in get_children(viruses, nodes, p)
        /\ get_children(viruses, nodes, last.id) = {}
        /\ \A k \in DOMAIN before.viruses :
              /\ viruses[k] = before.viruses[k]
              /\ nodes[viruses[k]].id = k
              /\ nodes[viruses[k]].parents = before.nodes[viruses[k]].parents
              /\ nodes[viruses[k]].children =
                    before.nodes[viruses[k]].children \cup
                    (IF k \in Range(last.parents) THEN {viruses[last.id]} ELSE {})

\* The last call left every Node of the heap, stored or not, as it found it.
HeapUnchanged == nodes = before.nodes

(***************************************************************************)
(* C11: create(id, parent_ids) with a non-empty parent list and an id that *)
(* is already in the store throws VirusAlreadyCreated, whatever the list   *)
(* names (present or absent identifiers), and leaves the store unchanged.  *)
(***************************************************************************)
C11_CreateDuplicate ==
    (last.op = "create" /\ last.parents # <<>> /\ exists(before.viruses, last.id))
    => (last.result = "VirusAlreadyCreated" /\ StoreUnchanged /\ HeapUnchanged)

\* A duplicate create whose list names an identifier that is not stored.
C11_Witness ==
    /\ last.op = "create" /\ last.parents # <<>>
    /\ exists(before.viruses, last.id)
    /\ MissingParent
    /\ last.result = "VirusAlreadyCreated"

(***************************************************************************)
(* C12: remove(get_stem_id()) throws TriedToRemoveStemVirus in every       *)
(* reachable state and leaves the store unchanged; remove of an identifier *)
(* that is not the stem's and is not stored throws VirusNotFound and       *)
(* leaves the store unchanged.                                             *)
(***************************************************************************)
C12_RemoveRejected ==
    /\ (last.op = "remove" /\ last.id = get_stem_id)
       => (last.result = "TriedToRemoveStemVirus"
           /\ StoreUnchanged /\ HeapUnchanged)
    /\ (last.op = "remove" /\ last.id # get_stem_id
        /\ ~exists(before.viruses, last.id))
       => (last.result = "VirusNotFound" /\ StoreUnchanged /\ HeapUnchanged)

\* remove(stem) was refused in a store that holds other entities too.
C12_Witness ==
    /\ last.op = "remove" /\ last.id = get_stem_id
    /\ last.result = "TriedToRemoveStemVirus"
    /\ Cardinality(DOMAIN viruses) > 1


C14_ConnectIdempotent ==
    (/\ last.op = "connect" /\ last.result # "bad_alloc"
     /\ exists(before.viruses, last.id) /\ ~MissingParent)
    => LET child == before.viruses[last.id]
           listed == {before.viruses[last.parents[i]] :
                         i \in 1..Len(last.parents)}
           added == {p \in listed : child \notin before.nodes[p].children}
       IN /\ last.result = "ok"
          /\ viruses = before.viruses
          /\ DOMAIN nodes = DOMAIN before.nodes
          /\ \A a \in DOMAIN nodes :
                /\ nodes[a].id = before.nodes[a].id
                /\ nodes[a].children = before.nodes[a].children \cup
                                        (IF a \in added THEN {child} ELSE {})
                /\ nodes[a].parents = before.nodes[a].parents \cup
                                       (IF a = child THEN added ELSE {})
          /\ (added = {} => HeapUnchanged)

\* A connect that lists an existing edge first and a new one second.
C14_Witness ==
    /\ last.op = "connect" /\ last.result = "ok"
    /\ Len(last.parents) = 2
    /\ exists(before.viruses, last.id) /\ ~MissingParent
    /\ before.viruses[last.id] \in
          before.nodes[before.viruses[last.parents[1]]].children
    /\ before.viruses[last.id] \notin
          before.nodes[before.viruses[last.parents[2]]].children


(***************************************************************************)
(* C15: create(id, parent_ids) with an empty parent list returns normally  *)
(* and changes nothing, whether id is stored or not; so it stores no       *)
(* entity without parents.                                                 *)
(***************************************************************************)
C15_CreateEmptyList ==
    (last.op = "create" /\ last.parents = <<>>)
    => (last.result = "ok" /\ StoreUnchanged /\ HeapUnchanged)

\* create with an empty list was called for an identifier that is not stored,
\* in a store that holds an identifier it could have been called for as well.
C15_Witness ==
    /\ last.op = "create" /\ last.parents = <<>> /\ last.result = "ok"
    /\ ~exists(before.viruses, last.id)
    /\ Cardinality(DOMAIN before.viruses) > 1


(***************************************************************************)
(* C16: the children view of a stored entity meets its children in         *)
(* ascending order of their identifiers, each identifier once.             *)
(***************************************************************************)
C16_ChildrenAscendingById ==
    \A id \in DOMAIN viruses :
        LET view == children_view(viruses, nodes, id)
        IN \A i, j \in 1..Len(view) : i < j => view[i] < view[j]

\* Some view meets an identifier twice.
C16_Repeated ==
    \E id \in DOMAIN viruses :
        LET view == children_view(viruses, nodes, id)
        IN \E i, j \in 1..Len(view) : i < j /\ view[i] = view[j]


\* The last call was a remove that passed its two tests and went into the
\* traversal.
RemoveTraversed ==
    /\ last.op = "remove"
    /\ last.result \notin {"TriedToRemoveStemVirus", "VirusNotFound"}

\* The traversal of that call: what its loop computes from the store the
\* call found, when reading `current` yields the popped Node.
LastTraverse ==
    Traverse(before.viruses, before.nodes, <<before.viruses[last.id]>>,
             {}, <<>>, [k \in Ids |-> 0])

(***************************************************************************)
(* C17: in the traversal of remove(r), each Node is taken from the queue   *)
(* and put into fully_remove at most once; every Node other than r's is    *)
(* put there only with all its parents in fully_remove; and the counter of *)
(* a stored entity is the number of its parents in fully_remove, never     *)
(* more than the number of its parents.                                    *)
(***************************************************************************)
C17_TraversalOnce ==
    RemoveTraversed =>
      LET t == LastTraverse
          r == before.viruses[last.id]
      IN /\ Len(t.remove_iterators) = Cardinality(t.fully_remove)
         /\ \A a \in t.fully_remove \ {r} :
               before.nodes[a].parents \subseteq t.fully_remove
         /\ \A a \in Stored(before.viruses) :
               /\ t.removed_parents[before.nodes[a].id]
                     = Cardinality(before.nodes[a].parents \cap t.fully_remove)
               /\ t.removed_parents[before.nodes[a].id]
                     <= Cardinality(before.nodes[a].parents)


\* The guards the last remove staged.
LastGuards ==
    RemoveGuards(before.nodes, before.viruses[last.id],
                 LastTraverse.fully_remove)

\* A remove that throws from the traversal or the staging leaves the store
\* as it found it.
StagingFailureKeepsStore ==
    (last.op = "remove" /\ last.result = "bad_alloc")
    => (StoreUnchanged /\ HeapUnchanged)

\* A remove that returns has erased every staged pointer from its set, has
\* emptied the sets of the Nodes of fully_remove, has erased their
\* identifiers from the map, and has changed nothing else.
CommitApplied ==
    Succeeded("remove") =>
      LET t == LastTraverse
      IN /\ \A g \in LastGuards : g.owner \in DOMAIN nodes => ~GuardFound(nodes, g)
         /\ \A a \in t.fully_remove \cap DOMAIN nodes :
               nodes[a].parents = {} /\ nodes[a].children = {}
         /\ \A a \in t.fully_remove : ~exists(viruses, before.nodes[a].id)
         /\ \A k \in DOMAIN viruses :
               /\ viruses[k] = before.viruses[k]
               /\ nodes[viruses[k]].id = k
               /\ nodes[viruses[k]].children =
                     before.nodes[viruses[k]].children \
                       {g.node : g \in {h \in LastGuards :
                            h.set = "children" /\ h.owner = viruses[k]}}
               /\ nodes[viruses[k]].parents =
                     before.nodes[viruses[k]].parents \
                       {g.node : g \in {h \in LastGuards :
                            h.set = "parents" /\ h.owner = viruses[k]}}

\* Every erase of the commit acts on an iterator that refers to an element.
CommitDefined ==
    RemoveTraversed =>
      ~InvalidErase(before.nodes, LastGuards, LastTraverse.remove_iterators)

(***************************************************************************)
(* C18: remove has two phases.  The traversal and the staging change       *)
(* nothing, so a call that fails in them leaves the store as it found it;  *)
(* the commit erases every staged pointer, empties the sets of the removed *)
(* Nodes and erases them from the map, and no step of it can fail.         *)
(***************************************************************************)
C18_TwoPhase == StagingFailureKeepsStore /\ CommitApplied /\ CommitDefined


\* The loop of the last remove took no more Nodes from its queue than the
\* store holds, plus one.
TraversalBounded ==
    RemoveTraversed =>
      Len(LastTraverse.remove_iterators) <= Cardinality(Stored(before.viruses)) + 1

(***************************************************************************)
(* C19: a call of remove ends: its loop empties the queue after a bounded  *)
(* number of iterations, and the call returns or throws.                   *)
(***************************************************************************)
C19_RemoveEnds ==
    last.op = "remove" =>
      /\ TraversalBounded
      /\ last.result \in {"ok", "TriedToRemoveStemVirus", "VirusNotFound",
                          "bad_alloc"}

(***************************************************************************)
(* C20: every stored entity is the stem or can be reached from the stem    *)
(* along child edges.                                                      *)
(***************************************************************************)
C20_ReachableFromStem ==
    Stored(viruses) \subseteq {stemNode} \cup Reach(nodes, nodes[stemNode].children)

====
